---- MODULE Spec2Model ----
(***************************************************************************)
(* Model of the React performance demo: the optimized App                  *)
(* (src/src/ProductDetails.tsx, lines 42-274) and the naive App            *)
(* (src/src/App.tsx).  Both are mounted over the same base collection and  *)
(* receive the same keystrokes and sort selections; row clicks are         *)
(* per-variant events.  Every action is one event handler followed by the  *)
(* render React commits for it.                                            *)
(*                                                                         *)
(* Strings are sequences of character codes ("A" = 65, "a" = 97).          *)
(***************************************************************************)
EXTENDS Integers, Sequences, FiniteSets, TLC

\* ---------------------------------------------------------------- bounds
MaxItems == 2
MaxEvents == 3
MaxViewEvents == 2

\* ------------------------------------------------------- strings in use
Zeta == <<90, 101, 116, 97>>
Alpha == <<65, 108, 112, 104, 97>>
Beta == <<66, 101, 116, 97>>

TextEmpty == <<>>
TextZ == <<90>>
TextET == <<69, 84>>
TextX == <<120>>

Names == {Zeta, Alpha, Beta}
Prices == {10, 50}
Texts == {TextEmpty, TextZ, TextET, TextX}
SortKeys == {"name", "price"}

CATEGORIES == <<"Hardware", "Software", "Books", "Accessories">>

\* the Item type; createItems numbers the items 1..n and cycles categories
MakeItem(i, name, price) ==
    [id |-> i, name |-> name, price |-> price,
     category |-> CATEGORIES[((i - 1) % Len(CATEGORIES)) + 1]]

\* createItems(n): here the name and price of every slot are drawn from
\* Names and Prices instead of Math.random()
Catalogs ==
    UNION {{[i \in 1..n |-> MakeItem(i, nm[i], pr[i])] :
                nm \in [1..n -> Names], pr \in [1..n -> Prices]} :
           n \in 0..MaxItems}

ScenarioItems ==
    <<MakeItem(1, Zeta, 10), MakeItem(2, Alpha, 50), MakeItem(3, Beta, 10)>>

Ids == 1..Len(ScenarioItems)
NULL == 0

\* ------------------------------------------------------ string built-ins
MinOf(S) == CHOOSE x \in S : \A y \in S : x <= y

\* String.prototype.toLowerCase on ASCII letters
ToLowerCase(s) ==
    [i \in 1..Len(s) |-> IF s[i] \in 65..90 THEN s[i] + 32 ELSE s[i]]

\* String.prototype.includes
Includes(s, q) ==
    \E off \in 0..(Len(s) - Len(q)) : SubSeq(s, off + 1, off + Len(q)) = q

\* code-unit lexicographic comparison, -1 / 0 / 1
LexCmp(x, y) ==
    LET n == IF Len(x) < Len(y) THEN Len(x) ELSE Len(y)
        D == {i \in 1..n : x[i] # y[i]}
    IN IF D = {}
         THEN (IF Len(x) < Len(y) THEN -1 ELSE IF Len(x) > Len(y) THEN 1 ELSE 0)
         ELSE (IF x[MinOf(D)] < y[MinOf(D)] THEN -1 ELSE 1)

\* String.prototype.localeCompare on ASCII letters: letters are compared
\* ignoring case first; strings equal up to case put the lower-case letter
\* first at the first difference
LocaleCompare(a, b) ==
    LET p == LexCmp(ToLowerCase(a), ToLowerCase(b))
        D == {i \in 1..Len(a) : a[i] # b[i]}
    IN IF p # 0 THEN p
       ELSE IF D = {} THEN 0
       ELSE IF a[MinOf(D)] > b[MinOf(D)] THEN -1 ELSE 1

\* ------------------------------------------------------ derived view
\* the comparator handed to Array.prototype.sort
Compare(a, b, key) ==
    IF key = "name" THEN LocaleCompare(a.name, b.name) ELSE a.price - b.price

\* variant: a sort that reverses elements comparing equal
PrecedesUnstable(s, j, i, key) ==
    \/ Compare(s[j], s[i], key) < 0
    \/ Compare(s[j], s[i], key) = 0 /\ j > i

\* the order Array.prototype.sort produces (stable since ES2019): s[j] comes
\* before s[i] when it compares smaller, or compares equal and stood first
Precedes(s, j, i, key) ==
    \/ Compare(s[j], s[i], key) < 0
    \/ Compare(s[j], s[i], key) = 0 /\ j < i

\* [...base].sort(cmp): a fresh array holding the elements of s in that order
SortItems(s, key) ==
    LET rank(i) == 1 + Cardinality({j \in 1..Len(s) : Precedes(s, j, i, key)})
    IN [p \in 1..Len(s) |-> s[CHOOSE i \in 1..Len(s) : rank(i) = p]]

\* variant: startsWith in place of includes
NameStartsWith(it, q) ==
    Len(q) <= Len(it.name) /\ SubSeq(ToLowerCase(it.name), 1, Len(q)) = q

\* the predicate of items.filter: name.toLowerCase().includes(q)
NameMatches(it, q) == Includes(ToLowerCase(it.name), q)

FilterItems(its, q) == SelectSeq(its, LAMBDA it : NameMatches(it, q))

\* variant: the query is not lower-cased
OptQueryRaw(text) == text

\* the query of the optimized list: deferredSearch.toLowerCase()
OptQuery(text) == ToLowerCase(text)

\* body of the optimizedList useMemo: const q, const base, const sorted
\* (each is bound to its value by ranging over a one-element set)
OptimizedList(its, text, key) ==
    CHOOSE sorted \in
        {SortItems(base, key) :
            base \in {IF q # <<>> THEN FilterItems(its, q) ELSE its :
                        q \in {OptQuery(text)}}} : TRUE

\* naiveList: items.filter(...).sort(...)
NaiveList(its, text, key) ==
    CHOOSE sorted \in
        {SortItems(base, key) :
            base \in {FilterItems(its, q) : q \in {ToLowerCase(text)}}} : TRUE

\* list.reduce((sum, i) => sum + i.price, 0)
SumPrice(s) ==
    LET sum[n \in 0..Len(s)] ==
            IF n = 0 THEN 0 ELSE sum[n - 1] + s[n].price
    IN sum[Len(s)]


\* ---------------------------------------------------------------- state
VARIABLES
    items,            \* const [items] = useState(() => createItems())
    search,           \* optimized App: search
    deferredSearch,   \* optimized App: useDeferredValue(search)
    sortBy,           \* optimized App: committed sortBy
    sortQueue,        \* setSortBy updates queued by startTransition
    selectedKey,      \* the key of the most recent sort selection
    memoDeps,         \* dependencies the optimizedList memo was computed for
    optimizedList,    \* value held by the optimizedList memo
    listRef,          \* identity of the array held by the memo
    recomputeCount,   \* number of runs of the optimizedList memo body
    totalDep,         \* dependency (list identity) of the total memo
    total,            \* value held by the total memo
    sets,             \* heap of Set objects of the optimized App
    favorites,        \* optimized App: reference to the current Set
    showDetailsFor,   \* optimized App: showDetailsFor (NULL when closed)
    lazyStatus,       \* state of the lazy() ProductDetails module
    loadFor,          \* id rendered when the import was started
    panel,            \* Suspense content: 0 nothing, -1 fallback, else id
    nSearch,          \* naive App: search
    nSortBy,          \* naive App: sortBy
    naiveList,        \* naive App: naiveList of the last render
    nTotal,           \* naive App: total of the last render
    nSets,            \* heap of Set objects of the naive App
    nFavorites,       \* naive App: reference to the current Set
    nShowDetailsFor,  \* naive App: showDetailsFor
    events            \* number of user events handled so far

viewVars == <<search, deferredSearch, sortBy, sortQueue, selectedKey>>
memoVars == <<memoDeps, optimizedList, listRef, recomputeCount, totalDep, total>>
favVars == <<sets, favorites>>
detailVars == <<showDetailsFor, lazyStatus, loadFor, panel>>
naiveViewVars == <<nSearch, nSortBy, naiveList, nTotal>>
naiveRestVars == <<nSets, nFavorites, nShowDetailsFor>>
vars == <<items, viewVars, memoVars, favVars, detailVars, naiveViewVars,
          naiveRestVars, events>>

FavRefs == {0, 1}
FALLBACK == -1

\* ---------------------------------------------------------------- hooks
\* variant: a memo whose dependencies never compare equal
AlwaysStale(prev, next) == FALSE

\* useMemo's dependency comparison: Object.is on every dependency
AreHookInputsEqual(prev, next) == prev = next

\* variant: a total memoized with an empty dependency list
UseMemoTotalOnce(prevTotal, prevDep, list, ref) == prevTotal

\* total = useMemo(() => optimizedList.reduce(...), [optimizedList])
UseMemoTotal(prevTotal, prevDep, list, ref) ==
    IF AreHookInputsEqual(prevDep, ref) THEN prevTotal ELSE SumPrice(list)

\* the render of the optimized App for the hook state (ds, sb): the two
\* useMemo calls
RenderOpt(ds, sb) ==
    \E hit \in {AreHookInputsEqual(memoDeps, <<items, ds, sb>>)} :
    \E newList \in {IF hit THEN optimizedList
                    ELSE OptimizedList(items, ds, sb)} :
    \E newRef \in {IF hit THEN listRef ELSE listRef + 1} :
       /\ memoDeps' = <<items, ds, sb>>
       /\ optimizedList' = newList
       /\ listRef' = newRef
       /\ recomputeCount' = IF hit THEN recomputeCount ELSE recomputeCount + 1
       /\ total' = UseMemoTotal(total, totalDep, newList, newRef)
       /\ totalDep' = newRef

\* the render of the naive App: list and total are computed inline
RenderNaive(text, key) ==
    \E list \in {NaiveList(items, text, key)} :
       /\ naiveList' = list
       /\ nTotal' = SumPrice(list)

\* variant: the oldest queued update wins
ReduceSortQueueFirst(cur, q) == IF q = <<>> THEN cur ELSE q[1]

\* useState queue processing: the queued setSortBy(key) updates are applied
\* in order, so the last one gives the state
ReduceSortQueue(cur, q) == IF q = <<>> THEN cur ELSE q[Len(q)]

\* isPending of useTransition
IsPending == sortQueue # <<>>

\* variant: the current Set is mutated and returned
ToggleInPlace(heap, ref, id) ==
    LET content == IF id \in heap[ref] THEN heap[ref] \ {id}
                   ELSE heap[ref] \cup {id}
    IN [heap |-> [heap EXCEPT ![ref] = content], ref |-> ref]

\* new Set(prev); next.has(id) ? next.delete(id) : next.add(id); return next
ToggleCopy(heap, ref, id) ==
    LET next == CHOOSE r \in FavRefs : r # ref
        content == IF id \in heap[ref] THEN heap[ref] \ {id}
                   ELSE heap[ref] \cup {id}
    IN [heap |-> [heap EXCEPT ![next] = content], ref |-> next]

\* {showDetailsFor && <ProductDetails id={showDetailsFor} />} under Suspense
RenderPanel(show, status) ==
    IF show = NULL THEN 0
    ELSE IF status = "resolved" THEN show
    ELSE FALLBACK

\* variant: the resolved load shows the id it was started for
RetryShowsRequested(show, startedFor) == startedFor

\* what the Suspense boundary shows when the import has resolved: the
\* children are rendered again from the current state
SuspenseRetry(show, startedFor) == RenderPanel(show, "resolved")

RowIds(list) == {list[i].id : i \in 1..Len(list)}

\* ----------------------------------------------------------------- init
InitRest ==
    /\ search = TextEmpty
    /\ deferredSearch = TextEmpty
    /\ sortBy = "name"
    /\ sortQueue = <<>>
    /\ selectedKey = "name"
    /\ memoDeps = <<items, TextEmpty, "name">>
    /\ optimizedList = OptimizedList(items, TextEmpty, "name")
    /\ listRef = 1
    /\ recomputeCount = 1
    /\ totalDep = 1
    /\ total = SumPrice(OptimizedList(items, TextEmpty, "name"))
    /\ sets = [r \in FavRefs |-> {}]
    /\ favorites = 0
    /\ showDetailsFor = NULL
    /\ lazyStatus = "uninitialized"
    /\ loadFor = NULL
    /\ panel = 0
    /\ nSearch = TextEmpty
    /\ nSortBy = "name"
    /\ naiveList = NaiveList(items, TextEmpty, "name")
    /\ nTotal = SumPrice(NaiveList(items, TextEmpty, "name"))
    /\ nSets = [r \in FavRefs |-> {}]
    /\ nFavorites = 0
    /\ nShowDetailsFor = NULL
    /\ events = 0

Init == items = ScenarioItems /\ InitRest

InitAny == items \in (Catalogs \cup {ScenarioItems}) /\ InitRest

\* -------------------------------------------------------------- actions
UserEvent == events < MaxEvents /\ events' = events + 1

\* onChange of the search input, in both variants
Keystroke(t) ==
    /\ UserEvent
    /\ t # search
    /\ search' = t
    /\ nSearch' = t
    /\ RenderOpt(deferredSearch, sortBy)
    /\ RenderNaive(t, nSortBy)
    /\ nSortBy' = nSortBy
    /\ UNCHANGED <<items, deferredSearch, sortBy, sortQueue, selectedKey,
                   favVars, detailVars, naiveRestVars>>

\* the deferred render of useDeferredValue commits the latest search
SettleSearch ==
    /\ deferredSearch # search
    /\ deferredSearch' = search
    /\ RenderOpt(search, sortBy)
    /\ UNCHANGED <<items, search, sortBy, sortQueue, selectedKey, favVars,
                   detailVars, naiveViewVars, naiveRestVars, events>>

\* onChange of the sort select: changeSort(key) in both variants
ChangeSort(k) ==
    /\ UserEvent
    /\ sortQueue' = Append(sortQueue, k)
    /\ selectedKey' = k
    /\ nSortBy' = k
    /\ RenderOpt(deferredSearch, sortBy)
    /\ RenderNaive(nSearch, k)
    /\ nSearch' = nSearch
    /\ UNCHANGED <<items, search, deferredSearch, sortBy, favVars,
                   detailVars, naiveRestVars>>

\* the transition render commits the queued setSortBy updates
CommitSort ==
    /\ IsPending
    /\ sortBy' = ReduceSortQueue(sortBy, sortQueue)
    /\ sortQueue' = <<>>
    /\ RenderOpt(deferredSearch, sortBy')
    /\ UNCHANGED <<items, search, deferredSearch, selectedKey, favVars,
                   detailVars, naiveViewVars, naiveRestVars, events>>

\* click on the star button of an OptimizedRow
OptToggle(id) ==
    /\ UserEvent
    /\ id \in RowIds(optimizedList)
    /\ sets' = ToggleCopy(sets, favorites, id).heap
    /\ favorites' = ToggleCopy(sets, favorites, id).ref
    /\ RenderOpt(deferredSearch, sortBy)
    /\ panel' = RenderPanel(showDetailsFor, lazyStatus)
    /\ UNCHANGED <<items, viewVars, showDetailsFor, lazyStatus, loadFor,
                   naiveViewVars, naiveRestVars>>

\* double click on a row of the virtual list: open(item.id)
OptOpen(id) ==
    /\ UserEvent
    /\ id \in RowIds(optimizedList)
    /\ showDetailsFor' = id
    /\ lazyStatus' = IF lazyStatus = "uninitialized" THEN "pending"
                     ELSE lazyStatus
    /\ loadFor' = IF lazyStatus = "uninitialized" THEN id ELSE loadFor
    /\ panel' = RenderPanel(id, lazyStatus)
    /\ RenderOpt(deferredSearch, sortBy)
    /\ UNCHANGED <<items, viewVars, favVars, naiveViewVars, naiveRestVars>>

\* onClose of the displayed dialog
OptClose ==
    /\ UserEvent
    /\ panel > 0
    /\ showDetailsFor' = NULL
    /\ panel' = RenderPanel(NULL, lazyStatus)
    /\ RenderOpt(deferredSearch, sortBy)
    /\ UNCHANGED <<items, viewVars, favVars, lazyStatus, loadFor,
                   naiveViewVars, naiveRestVars>>

\* the import("./ProductDetails") promise resolves
LoadComplete ==
    /\ lazyStatus = "pending"
    /\ lazyStatus' = "resolved"
    /\ panel' = SuspenseRetry(showDetailsFor, loadFor)
    /\ UNCHANGED <<items, viewVars, memoVars, favVars, showDetailsFor,
                   loadFor, naiveViewVars, naiveRestVars, events>>

\* click on the star button of a NaiveRow: the button's onClick runs
\* naiveToggle, then the click bubbles to the row's onClick={handleOpen}
NaiveToggleClick(id) ==
    /\ UserEvent
    /\ id \in RowIds(naiveList)
    /\ nSets' = ToggleCopy(nSets, nFavorites, id).heap
    /\ nFavorites' = ToggleCopy(nSets, nFavorites, id).ref
    /\ nShowDetailsFor' = id
    /\ RenderNaive(nSearch, nSortBy)
    /\ UNCHANGED <<items, viewVars, memoVars, favVars, detailVars, nSearch,
                   nSortBy>>

\* click on a NaiveRow outside the button: onOpen(item.id)
NaiveOpen(id) ==
    /\ UserEvent
    /\ id \in RowIds(naiveList)
    /\ nShowDetailsFor' = id
    /\ RenderNaive(nSearch, nSortBy)
    /\ UNCHANGED <<items, viewVars, memoVars, favVars, detailVars, nSearch,
                   nSortBy, nSets, nFavorites>>

\* onClose of the naive dialog
NaiveClose ==
    /\ UserEvent
    /\ nShowDetailsFor # NULL
    /\ nShowDetailsFor' = NULL
    /\ RenderNaive(nSearch, nSortBy)
    /\ UNCHANGED <<items, viewVars, memoVars, favVars, detailVars, nSearch,
                   nSortBy, nSets, nFavorites>>

Next ==
    \/ \E t \in Texts : Keystroke(t)
    \/ SettleSearch
    \/ \E k \in SortKeys : ChangeSort(k)
    \/ CommitSort
    \/ \E id \in Ids : OptToggle(id)
    \/ \E id \in Ids : OptOpen(id)
    \/ OptClose
    \/ LoadComplete
    \/ \E id \in Ids : NaiveToggleClick(id)
    \/ \E id \in Ids : NaiveOpen(id)
    \/ NaiveClose

Spec == Init /\ [][Next]_vars

\* the low-priority renders are eventually committed
FairSpec == Spec /\ WF_vars(SettleSearch) /\ WF_vars(CommitSort)

\* the derived view alone: every base collection of the bounds and the
\* three-item scenario, driven by at most MaxViewEvents keystrokes and sort
\* selections
NextView ==
    \/ \E t \in Texts : events < MaxViewEvents /\ Keystroke(t)
    \/ SettleSearch
    \/ \E k \in SortKeys : events < MaxViewEvents /\ ChangeSort(k)
    \/ CommitSort

SpecView == InitAny /\ [][NextView]_vars

\* ================================================================ claims

\* C1: the displayed panel always shows the id of the current
\* DetailRequest: nothing is displayed when the request is cleared, and a
\* load that completes never displays an id other than the current one.
C1_PanelShowsCurrentRequest ==
    /\ showDetailsFor = NULL => panel = 0
    /\ showDetailsFor # NULL => panel \in {FALLBACK, showDetailsFor}
    /\ (showDetailsFor # NULL /\ lazyStatus = "resolved")
           => panel = showDetailsFor

\* the load was started for one id and completed after another was requested
C1_Witness ==
    /\ events = 2
    /\ lazyStatus = "resolved"
    /\ showDetailsFor # NULL
    /\ loadFor # showDetailsFor
    /\ panel = showDetailsFor

\* C2: the most recent input eventually wins and keeps winning: the settled
\* filter text eventually equals the immediate text for good, and the
\* applied sort key eventually equals the last selected key for good.
C2_LatestInputWins ==
    <>[](deferredSearch = search /\ sortBy = selectedKey /\ ~IsPending)

C2_Witness ==
    /\ events = 3
    /\ recomputeCount = 3
    /\ search = TextX
    /\ deferredSearch = TextX
    /\ selectedKey = "price"
    /\ sortBy = "price"
    /\ ~IsPending

\* C3: a step that leaves (items, settled filter text, sort key) unchanged
\* keeps the same derived row instance and does not run the filter/sort
\* again; the recomputation counter moves only when the triple changed.
C3_Memoized ==
    [][/\ (<<items, deferredSearch, sortBy>>' = <<items, deferredSearch, sortBy>>)
          => /\ listRef' = listRef
             /\ optimizedList' = optimizedList
             /\ recomputeCount' = recomputeCount
       /\ recomputeCount' \in {recomputeCount, recomputeCount + 1}]_vars

\* a toggle, an open and an unsettled keystroke happened without recompute
C3_Witness ==
    /\ recomputeCount = 1
    /\ listRef = 1
    /\ search # deferredSearch
    /\ favorites # 0
    /\ showDetailsFor # NULL

\* C4: in every state the displayed total is the sum of price over the rows
\* displayed in that state, in both variants.
C4_TotalIsSum ==
    /\ total = SumPrice(optimizedList)
    /\ nTotal = SumPrice(naiveList)

\* a singleton result while a keystroke and a sort change are outstanding
C4_Witness ==
    /\ Len(optimizedList) = 1
    /\ total = 10
    /\ search # deferredSearch
    /\ IsPending

\* C5: the rows contain exactly the items whose name contains the filter
\* text ignoring case, each once; the empty filter yields all items.
SameLetter(c, d) ==
    \/ c = d
    \/ c \in 65..90 /\ d = c + 32
    \/ d \in 65..90 /\ c = d + 32

ContainsIgnoreCase(name, q) ==
    \E off \in 0..(Len(name) - Len(q)) :
        \A k \in 1..Len(q) : SameLetter(name[off + k], q[k])

ExactlyTheMatches(rows, q) ==
    /\ \A i \in 1..Len(items) :
          Cardinality({j \in 1..Len(rows) : rows[j] = items[i]})
              = IF ContainsIgnoreCase(items[i].name, q) THEN 1 ELSE 0
    /\ \A j \in 1..Len(rows) : \E i \in 1..Len(items) : rows[j] = items[i]
    /\ q = <<>> => Len(rows) = Len(items)

C5_FilterExact ==
    /\ ExactlyTheMatches(optimizedList, deferredSearch)
    /\ ExactlyTheMatches(naiveList, nSearch)

\* an upper-case query matched lower-case letters inside two of three names
C5_Witness ==
    /\ deferredSearch = TextET
    /\ Len(items) = 3
    /\ Len(optimizedList) = 2
    /\ Len(naiveList) = 2

\* C6: the rows ascend in the selected sort key and items with an equal key
\* keep the order of the base collection, whatever was selected before; the
\* base [Zeta 10, Alpha 50, Beta 10] by price is [Zeta, Beta, Alpha].
AscendingStable(rows, key) ==
    \A i, j \in 1..Len(rows) :
        i < j =>
           /\ IF key = "price" THEN rows[i].price <= rows[j].price
              ELSE LocaleCompare(rows[i].name, rows[j].name) <= 0
           /\ (IF key = "price" THEN rows[i].price = rows[j].price
               ELSE rows[i].name = rows[j].name) => rows[i].id < rows[j].id

RowNames(rows) == [i \in 1..Len(rows) |-> rows[i].name]

C6_SortStable ==
    /\ AscendingStable(optimizedList, sortBy)
    /\ AscendingStable(naiveList, nSortBy)
    /\ (items = ScenarioItems /\ deferredSearch = TextEmpty /\ sortBy = "price")
           => RowNames(optimizedList) = <<Zeta, Beta, Alpha>>
    /\ (items = ScenarioItems /\ nSearch = TextEmpty /\ nSortBy = "price")
           => RowNames(naiveList) = <<Zeta, Beta, Alpha>>

\* the scenario sorted by price after the view was sorted by name
C6_Witness ==
    /\ items = ScenarioItems
    /\ deferredSearch = TextEmpty
    /\ sortBy = "price"
    /\ recomputeCount = 2
    /\ RowNames(optimizedList) = <<Zeta, Beta, Alpha>>
    /\ RowNames(naiveList) = <<Zeta, Beta, Alpha>>

\* C7: toggle(X) yields a version distinct from the previous one, differing
\* from it exactly at X, and leaves the previous version as it was.
ToggledAt(old, new, x) ==
    /\ (x \in new) # (x \in old)
    /\ \A y \in Ids \ {x} : (y \in new) = (y \in old)

C7_ToggleCopyOnWrite ==
    [][\A x \in Ids :
          /\ OptToggle(x) =>
                /\ favorites' # favorites
                /\ sets'[favorites] = sets[favorites]
                /\ ToggledAt(sets[favorites], sets'[favorites'], x)
          /\ NaiveToggleClick(x) =>
                /\ nFavorites' # nFavorites
                /\ nSets'[nFavorites] = nSets[nFavorites]
                /\ ToggledAt(nSets[nFavorites], nSets'[nFavorites'], x)]_vars

\* id 2 was added, then id 1, then id 2 removed: the version before the
\* removal still holds both
C7_Witness ==
    /\ events = 3
    /\ sets[favorites] = {1}
    /\ sets[CHOOSE r \in FavRefs : r # favorites] = {1, 2}

\* C9: a favorite toggle changes only the Favorite Set: filter text, sort
\* key, rows, total and DetailRequest are the same after it as before.
C9_ToggleChangesOnlyFavorites ==
    [][\A x \in Ids :
          /\ OptToggle(x) =>
                UNCHANGED <<search, deferredSearch, sortBy, sortQueue,
                            optimizedList, listRef, recomputeCount, total,
                            showDetailsFor, panel>>
          /\ NaiveToggleClick(x) =>
                UNCHANGED <<nSearch, nSortBy, naiveList, nTotal,
                            nShowDetailsFor>>]_vars

\* C10: whenever the optimized variant is settled, the two variants show
\* the same rows, the same count and the same total.
C10_VariantsAgree ==
    (deferredSearch = search /\ ~IsPending) =>
        /\ Len(optimizedList) = Len(naiveList)
        /\ \A i \in 1..Len(naiveList) : optimizedList[i] = naiveList[i]
        /\ total = nTotal

\* settled on an upper-case query and a committed price sort
C10_Witness ==
    /\ search = TextET
    /\ deferredSearch = TextET
    /\ ~IsPending
    /\ sortBy = "price"
    /\ Len(naiveList) = 2

====
